---- MODULE Spec2Model ----
(***************************************************************************)
(* Typing speed test game (src/main.js): the game-state / word-timer       *)
(* coordinator.  The module-level variables of main.js and the DOM fields  *)
(* it reads back are the state; every event handler, interval callback and *)
(* timeout callback is one atomic action (JavaScript runs each callback to *)
(* completion on a single thread).                                         *)
(*                                                                         *)
(* Strings are sequences of one-character strings, so that toLowerCase,    *)
(* startsWith and slice are computed and not assumed.                      *)
(*                                                                         *)
(* index.html is not part of src/: the model takes the word display and    *)
(* the input to start empty, the score to start at "0", and the level      *)
(* select to start on the default level.                                   *)
(***************************************************************************)
EXTENDS Integers, Sequences, FiniteSets, TLC

(***************************************************************************)
(* Bounds of the model                                                     *)
(***************************************************************************)
\* words taken from the head of each level's list
MaxWords == 2
\* manual level changes in one behaviour
MaxLevelChanges == 1
\* cap of the score counter (it grows without limit in the program)
MaxScore == 3
\* how far below zero the countdown display is followed
MaxNegative == 1
\* word rounds (timers started) in one behaviour
MaxRounds == 3

(***************************************************************************)
(* Word bank and configuration                                             *)
(***************************************************************************)
wordsByLevel ==
    [ Easy |-> <<
        <<"H","e","l","l","o">>,
        <<"C","o","d","e">>,
        <<"T","o","w","n">>,
        <<"T","e","s","t">>,
        <<"W","o","r","k">>,
        <<"P","l","a","y">>,
        <<"R","u","n">>,
        <<"J","u","m","p">>,
        <<"F","a","s","t">>,
        <<"S","l","o","w">>,
        <<"G","o","o","d">>,
        <<"N","i","c","e">>,
        <<"C","o","o","l">>,
        <<"G","a","m","e">>,
        <<"T","i","m","e">>,
        <<"W","o","r","d">>,
        <<"T","y","p","e">>,
        <<"K","e","y","s">>,
        <<"N","e","w","s">>,
        <<"D","a","t","a">>,
        <<"F","i","l","e">>,
        <<"S","a","v","e">>,
        <<"O","p","e","n">>,
        <<"E","x","i","t">>,
        <<"H","e","l","p">>,
        <<"M","e","n","u">>,
        <<"S","t","a","r","t">>,
        <<"S","t","o","p">>,
        <<"F","i","n","d">>,
        <<"E","d","i","t">> >>,
      Normal |-> <<
        <<"P","r","o","g","r","a","m","m","i","n","g">>,
        <<"J","a","v","a","s","c","r","i","p","t">>,
        <<"C","o","u","n","t","r","y">>,
        <<"T","e","s","t","i","n","g">>,
        <<"Y","o","u","t","u","b","e">>,
        <<"L","i","n","k","e","d","i","n">>,
        <<"T","w","i","t","t","e","r">>,
        <<"G","i","t","h","u","b">>,
        <<"L","e","e","t","c","o","d","e">>,
        <<"I","n","t","e","r","n","e","t">>,
        <<"P","y","t","h","o","n">>,
        <<"C","o","d","i","n","g">>,
        <<"F","u","n","n","y">>,
        <<"W","o","r","k","i","n","g">>,
        <<"T","a","s","k">>,
        <<"R","u","n","n","e","r">>,
        <<"R","o","l","e","s">>,
        <<"P","l","a","y","i","n","g">>,
        <<"D","o","c","u","m","e","n","t">>,
        <<"F","u","n","c","t","i","o","n">>,
        <<"V","a","r","i","a","b","l","e">>,
        <<"C","o","n","s","o","l","e">>,
        <<"B","r","o","w","s","e","r">>,
        <<"W","e","b","s","i","t","e">>,
        <<"D","a","t","a","b","a","s","e">>,
        <<"N","e","t","w","o","r","k">>,
        <<"S","e","r","v","e","r">>,
        <<"C","l","i","e","n","t">>,
        <<"F","r","a","m","e","w","o","r","k">>,
        <<"L","i","b","r","a","r","y">>,
        <<"P","a","c","k","a","g","e">>,
        <<"M","o","d","u","l","e">> >>,
      Hard |-> <<
        <<"D","e","s","t","r","u","c","t","u","r","i","n","g">>,
        <<"P","a","r","a","d","i","g","m">>,
        <<"D","o","c","u","m","e","n","t","a","t","i","o","n">>,
        <<"D","e","p","e","n","d","e","n","c","i","e","s">>,
        <<"A","s","y","n","c","h","r","o","n","o","u","s">>,
        <<"S","y","n","c","h","r","o","n","i","z","a","t","i","o","n">>,
        <<"E","n","c","a","p","s","u","l","a","t","i","o","n">>,
        <<"P","o","l","y","m","o","r","p","h","i","s","m">>,
        <<"I","n","h","e","r","i","t","a","n","c","e">>,
        <<"A","b","s","t","r","a","c","t","i","o","n">>,
        <<"A","l","g","o","r","i","t","h","m">>,
        <<"O","p","t","i","m","i","z","a","t","i","o","n">>,
        <<"A","u","t","h","e","n","t","i","c","a","t","i","o","n">>,
        <<"A","u","t","h","o","r","i","z","a","t","i","o","n">>,
        <<"I","m","p","l","e","m","e","n","t","a","t","i","o","n">>,
        <<"C","o","n","f","i","g","u","r","a","t","i","o","n">>,
        <<"I","n","i","t","i","a","l","i","z","a","t","i","o","n">>,
        <<"S","e","r","i","a","l","i","z","a","t","i","o","n">>,
        <<"D","e","s","e","r","i","a","l","i","z","a","t","i","o","n">>,
        <<"R","e","f","a","c","t","o","r","i","n","g">>,
        <<"A","r","c","h","i","t","e","c","t","u","r","e">>,
        <<"I","n","f","r","a","s","t","r","u","c","t","u","r","e">>,
        <<"M","e","t","h","o","d","o","l","o","g","y">>,
        <<"C","r","y","p","t","o","c","u","r","r","e","n","c","y">>,
        <<"D","e","c","e","n","t","r","a","l","i","z","a","t","i","o","n">>,
        <<"F","u","n","c","t","i","o","n","a","l","i","t","y">>,
        <<"C","o","m","p","a","t","i","b","i","l","i","t","y">>,
        <<"A","c","c","e","s","s","i","b","i","l","i","t","y">>,
        <<"R","e","s","p","o","n","s","i","v","e","n","e","s","s">>,
        <<"P","e","r","f","o","r","m","a","n","c","e">> >> ]

\* per-word time budget of each level, in seconds
lvls == [Easy |-> 5, Normal |-> 4, Hard |-> 5]

\* order of level progression
levelProgression == <<"Easy", "Normal", "Hard">>

\* bonus seconds of the first word of a level
BonusSeconds == 3

Levels == DOMAIN wordsByLevel

Min(a, b) == IF a < b THEN a ELSE b

\* [...wordsByLevel[levelName]], cut to the first MaxWords words
WordList(levelName) ==
    SubSeq(wordsByLevel[levelName], 1, Min(MaxWords, Len(wordsByLevel[levelName])))

(***************************************************************************)
(* String operations of JavaScript used by the handlers                    *)
(***************************************************************************)
UpperLetters ==
    <<"A","B","C","D","E","F","G","H","I","J","K","L","M",
      "N","O","P","Q","R","S","T","U","V","W","X","Y","Z">>

LowerLetters ==
    <<"a","b","c","d","e","f","g","h","i","j","k","l","m",
      "n","o","p","q","r","s","t","u","v","w","x","y","z">>

\* the lower-case letter of every upper-case letter
LowerOf ==
    [c \in {UpperLetters[i] : i \in DOMAIN UpperLetters} |->
        LowerLetters[CHOOSE i \in DOMAIN UpperLetters : UpperLetters[i] = c]]

ToLowerChar(c) == IF c \in DOMAIN LowerOf THEN LowerOf[c] ELSE c

\* String.prototype.toLowerCase
ToLowerCase(str) == [i \in 1..Len(str) |-> ToLowerChar(str[i])]

\* String.prototype.startsWith
StartsWith(str, prefix) ==
    /\ Len(prefix) <= Len(str)
    /\ SubSeq(str, 1, Len(prefix)) = prefix

\* str.slice(0, -1)
SliceLast(str) == SubSeq(str, 1, Len(str) - 1)

\* Array.prototype.indexOf, 0-based, -1 when absent
IndexOf(arr, x) ==
    IF \E i \in DOMAIN arr : arr[i] = x
    THEN (CHOOSE i \in DOMAIN arr : arr[i] = x /\ \A j \in 1..(i - 1) : arr[j] # x) - 1
    ELSE -1

\* arr.splice(index, 1) with a 0-based index: the array that remains
Splice(arr, index) ==
    IF index + 1 \in DOMAIN arr
    THEN SubSeq(arr, 1, index) \o SubSeq(arr, index + 2, Len(arr))
    ELSE arr

\* what innerHTML holds after it is assigned undefined
Undefined == <<"u","n","d","e","f","i","n","e","d">>

\* setInterval handle before the first timer
Null == 0

(***************************************************************************)
(* State                                                                   *)
(***************************************************************************)
VARIABLES
    defaultLevelName,     \* let defaultLevelName
    defaultLevelSeconds,  \* let defaultLevelSeconds
    currentWords,         \* let currentWords: the remaining pool
    currentTimer,         \* let currentTimer: handle of the last interval started
    isFirstWord,          \* let isFirstWord
    theWord,              \* elements.theWord.innerHTML
    inputValue,           \* elements.input.value
    timeLeft,             \* elements.timeLeftSpan.innerHTML, as a number
    scoreGot,             \* elements.scoreGot.innerHTML, as a number
    scoreTotal,           \* elements.scoreTotal.innerHTML, as a number
    finishMessage,        \* spans appended to elements.finishMessage
    startButton,          \* whether the start button is still in the page
    levelSelect,          \* elements.levelSelect.value
    intervals,            \* handles of the intervals that are live (setInterval)
    nextTimerId,          \* the handle the next setInterval returns
    timeouts,             \* pending tier-advance callbacks (setTimeout), oldest first
    storage,              \* localStorage item 'typingGameScores'
    inputError,           \* elements.input.classList contains 'error'
    picked,               \* history: words selected since the pool was last refilled
    answered,             \* history: targets answered correctly since that refill
    resolvedBy,           \* history: how the round of theWord has been resolved so far
    levelChanges          \* history: number of manual level changes

vars ==
    <<defaultLevelName, defaultLevelSeconds, currentWords, currentTimer, isFirstWord,
      theWord, inputValue, timeLeft, scoreGot, scoreTotal, finishMessage, startButton,
      levelSelect, intervals, nextTimerId, timeouts, storage, inputError, picked,
      answered, resolvedBy, levelChanges>>

\* the program state as one record, handed through the calls of a handler;
\* thrown: an exception has left the handler
St ==
    [ defaultLevelName |-> defaultLevelName,
      defaultLevelSeconds |-> defaultLevelSeconds,
      currentWords |-> currentWords,
      currentTimer |-> currentTimer,
      isFirstWord |-> isFirstWord,
      theWord |-> theWord,
      inputValue |-> inputValue,
      timeLeft |-> timeLeft,
      scoreGot |-> scoreGot,
      scoreTotal |-> scoreTotal,
      finishMessage |-> finishMessage,
      startButton |-> startButton,
      levelSelect |-> levelSelect,
      intervals |-> intervals,
      nextTimerId |-> nextTimerId,
      timeouts |-> timeouts,
      storage |-> storage,
      inputError |-> inputError,
      picked |-> picked,
      answered |-> answered,
      thrown |-> FALSE ]

\* the caps that keep the state space finite
WithinBounds(s) ==
    /\ s.scoreGot <= MaxScore
    /\ s.timeLeft >= 0 - MaxNegative
    /\ s.nextTimerId <= MaxRounds + 1

\* the state a handler leaves behind; event names the handler's outcome for
\* the history variables
Commit(s, event) ==
    /\ WithinBounds(s)
    /\ defaultLevelName' = s.defaultLevelName
    /\ defaultLevelSeconds' = s.defaultLevelSeconds
    /\ currentWords' = s.currentWords
    /\ currentTimer' = s.currentTimer
    /\ isFirstWord' = s.isFirstWord
    /\ theWord' = s.theWord
    /\ inputValue' = s.inputValue
    /\ timeLeft' = s.timeLeft
    /\ scoreGot' = s.scoreGot
    /\ scoreTotal' = s.scoreTotal
    /\ finishMessage' = s.finishMessage
    /\ startButton' = s.startButton
    /\ levelSelect' = s.levelSelect
    /\ intervals' = s.intervals
    /\ nextTimerId' = s.nextTimerId
    /\ timeouts' = s.timeouts
    /\ storage' = s.storage
    /\ inputError' = s.inputError
    /\ picked' = s.picked
    /\ answered' = s.answered
    /\ resolvedBy' =
          IF s.nextTimerId # nextTimerId THEN {}
          ELSE IF event \in {"enterCorrect", "timeout"} THEN resolvedBy \cup {event}
          ELSE resolvedBy
    /\ levelChanges' = IF event = "levelChange" THEN levelChanges + 1 ELSE levelChanges

(***************************************************************************)
(* Local storage                                                           *)
(***************************************************************************)
NoItem == [kind |-> "null", entries |-> <<>>]
Malformed == [kind |-> "malformed", entries |-> <<>>]

\* getScoreHistory: stored ? JSON.parse(stored) : []
GetScoreHistory(stored) == IF stored.kind = "null" THEN <<>> ELSE stored.entries

\* saveScore; JSON.parse throws on a malformed item
SaveScore(s, score, total, level, status) ==
    IF s.storage.kind = "malformed"
    THEN [s EXCEPT !.thrown = TRUE]
    ELSE [s EXCEPT !.storage =
            [kind |-> "array",
             entries |-> Append(GetScoreHistory(s.storage),
                                [score |-> score, total |-> total,
                                 level |-> level, status |-> status])]]

SaveGameScore(s, status) ==
    SaveScore(s, s.scoreGot, s.scoreTotal, s.defaultLevelName, status)

(***************************************************************************)
(* Level set-up, word management, timer                                    *)
(***************************************************************************)
\* a reset that ignores keepScore
UpdateUIForLevelNoKeep(s, levelName, seconds, keepScore) ==
    LET words == WordList(levelName) IN
    [s EXCEPT !.timeLeft = seconds,
              !.currentWords = words,
              !.picked = <<>>,
              !.answered = <<>>,
              !.scoreTotal = Len(words)]

UpdateUIForLevel(s, levelName, seconds, keepScore) ==
    LET words == WordList(levelName) IN
    [s EXCEPT !.timeLeft = seconds,
              !.currentWords = words,
              !.picked = <<>>,
              !.answered = <<>>,
              !.scoreTotal = IF keepScore THEN s.scoreTotal + Len(words)
                             ELSE Len(words)]

\* the values Math.floor(Math.random() * words.length) can take
RandomIndexes(words) == IF words = <<>> THEN {0} ELSE 0..(Len(words) - 1)

GetRandomWord(words, randomIndex) ==
    [ randomWord |-> IF randomIndex + 1 \in DOMAIN words
                     THEN words[randomIndex + 1] ELSE Undefined,
      currentWords |-> Splice(words, randomIndex) ]

StartTimer(s) ==
    LET timeForThisWord == IF s.isFirstWord
                           THEN s.defaultLevelSeconds + BonusSeconds
                           ELSE s.defaultLevelSeconds IN
    [s EXCEPT !.timeLeft = timeForThisWord,
              !.isFirstWord = FALSE,
              !.currentTimer = s.nextTimerId,
              !.intervals = @ \cup {s.nextTimerId},
              !.nextTimerId = @ + 1]

ClearInterval(s, handle) == [s EXCEPT !.intervals = @ \ {handle}]

GenerateNextWord(s, rnd) ==
    LET got == GetRandomWord(s.currentWords, rnd) IN
    StartTimer([s EXCEPT !.currentWords = got.currentWords,
                         !.theWord = got.randomWord,
                         !.picked = Append(@, got.randomWord)])

(***************************************************************************)
(* Game end and level progression                                          *)
(***************************************************************************)
DisplayLevelCompleteMessage(s, nextLevel) ==
    [s EXCEPT !.finishMessage =
        Append(@, [className |-> "good", text |-> "Level Complete", level |-> nextLevel])]

DisplayEndMessage(s, message, className) ==
    [s EXCEPT !.finishMessage =
        Append(@, [className |-> className, text |-> message, level |-> ""])]

AdvanceToNextLevel(s) ==
    LET currentLevelIndex == IndexOf(levelProgression, s.defaultLevelName)
        nextLevel == levelProgression[currentLevelIndex + 2]
        saved == SaveGameScore(s, "win")
    IN  IF saved.thrown THEN saved
        ELSE [DisplayLevelCompleteMessage(saved, nextLevel)
                EXCEPT !.timeouts = Append(@, nextLevel)]

EndGame(s, status) ==
    IF status = "win"
    THEN LET currentLevelIndex == IndexOf(levelProgression, s.defaultLevelName)
             hasNextLevel == currentLevelIndex < Len(levelProgression) - 1
         IN  IF hasNextLevel
             THEN AdvanceToNextLevel(s)
             ELSE SaveGameScore(DisplayEndMessage(s, "All Levels Completed", "good"),
                                status)
    ELSE SaveGameScore(DisplayEndMessage(s, "Game Over", "bad"), status)

(***************************************************************************)
(* Error feedback                                                          *)
(***************************************************************************)
\* showInputError: the class is added; the sound has no effect on the state
\* and its failure is caught; the callback that removes the class is
\* ErrorTimeout below
ShowInputError(s) == [s EXCEPT !.inputError = TRUE]

ResetInputError(s) == [s EXCEPT !.inputError = FALSE]

(***************************************************************************)
(* Answer validation                                                       *)
(***************************************************************************)
IncrementScore(s) == [s EXCEPT !.scoreGot = @ + 1, !.answered = Append(@, s.theWord)]

HandleCorrectAnswer(s, rnd) ==
    LET a == IncrementScore(ResetInputError([s EXCEPT !.inputValue = <<>>])) IN
    IF Len(a.currentWords) > 0 THEN GenerateNextWord(a, rnd) ELSE EndGame(a, "win")

\* a wrong answer that ends the game as a loss
HandleWrongAnswerLoses(s, rnd) ==
    EndGame(ResetInputError([s EXCEPT !.inputValue = <<>>]), "loss")

\* a wrong answer that is counted as a correct one
HandleWrongAnswerScored(s, rnd) == HandleCorrectAnswer(s, rnd)

HandleWrongAnswer(s, rnd) ==
    LET a == ResetInputError([s EXCEPT !.inputValue = <<>>]) IN
    IF Len(a.currentWords) > 0 THEN GenerateNextWord(a, rnd) ELSE EndGame(a, "win")

IsMatch(s) == ToLowerCase(s.theWord) = ToLowerCase(s.inputValue)

CheckAnswer(s, rnd) ==
    IF IsMatch(s) THEN HandleCorrectAnswer(s, rnd) ELSE HandleWrongAnswer(s, rnd)

(***************************************************************************)
(* Events                                                                  *)
(***************************************************************************)
\* a key that occurs in no word of the word bank
WrongKey == "7"

\* the keys the player types: the letter that continues the input towards the
\* target, in lower case (typed without shift), and a key that is in no word;
\* every other key is rejected exactly as the latter is
Keys ==
    (IF Len(inputValue) < Len(theWord)
     THEN {ToLowerChar(theWord[Len(inputValue) + 1])} ELSE {}) \cup {WrongKey}

\* the level select fires 'change' when the player picks another value
HandleLevelChange(level) ==
    /\ level # levelSelect
    /\ levelChanges < MaxLevelChanges
    /\ LET s == [St EXCEPT !.levelSelect = level,
                           !.defaultLevelName = level,
                           !.defaultLevelSeconds = lvls[level]]
       IN  Commit(UpdateUIForLevel(s, s.defaultLevelName, s.defaultLevelSeconds, FALSE),
                  "levelChange")

HandleStartGame ==
    /\ startButton
    /\ \E rnd \in RandomIndexes(currentWords) :
          LET s == [St EXCEPT !.startButton = FALSE, !.isFirstWord = TRUE]
          IN  Commit(GenerateNextWord(s, rnd), "start")

\* the 'input' listener, on the value the edit has left in the field
HandleInputValidation(s) ==
    LET currentWord == ToLowerCase(s.theWord)
        userInput == ToLowerCase(s.inputValue)
    IN  IF userInput # <<>> /\ ~StartsWith(currentWord, userInput)
        THEN ShowInputError([s EXCEPT !.inputValue = SliceLast(s.inputValue)])
        ELSE ResetInputError(s)

\* the player types one character at the end of the field
TypeKey(key) ==
    Commit(HandleInputValidation([St EXCEPT !.inputValue = Append(@, key)]), "input")

\* the player deletes the last character of the field
Backspace ==
    /\ inputValue # <<>>
    /\ Commit(HandleInputValidation([St EXCEPT !.inputValue = SliceLast(@)]), "input")

\* an Enter press that resolves a wrong submission as a wrong answer
EnterKeyResolves(s, rnd) ==
    LET currentWord == ToLowerCase(s.theWord)
        userInput == ToLowerCase(s.inputValue)
    IN  IF currentWord = userInput
        THEN HandleCorrectAnswer(ClearInterval(s, s.currentTimer), rnd)
        ELSE IF Len(userInput) > 0
        THEN HandleWrongAnswer(ClearInterval(s, s.currentTimer), rnd)
        ELSE s

\* what the 'keydown' listener does to the state s, for the Enter key
EnterKey(s, rnd) ==
    LET currentWord == ToLowerCase(s.theWord)
        userInput == ToLowerCase(s.inputValue)
    IN  IF currentWord = userInput
        THEN HandleCorrectAnswer(ClearInterval(s, s.currentTimer), rnd)
        ELSE IF Len(userInput) > 0
        THEN ShowInputError(s)
        ELSE s

\* the 'keydown' listener, for the Enter key
HandleEnterKey ==
    \E rnd \in RandomIndexes(currentWords) :
       Commit(EnterKey(St, rnd),
              IF IsMatch(St) THEN "enterCorrect"
              ELSE IF inputValue # <<>> THEN "enterError" ELSE "enterNoop")

\* what one run of the interval callback does to the state s
IntervalCallback(s, rnd) ==
    LET d == [s EXCEPT !.timeLeft = @ - 1] IN
    IF d.timeLeft = 0
    THEN CheckAnswer(ClearInterval(d, d.currentTimer), rnd)
    ELSE d

\* one run of the interval callback of the live interval `handle`
TimerTick(handle) ==
    /\ handle \in intervals
    /\ \E rnd \in RandomIndexes(currentWords) :
          Commit(IntervalCallback(St, rnd),
                 IF timeLeft - 1 = 0 THEN "timeout" ELSE "tick")

\* a callback of showInputError runs, 500 ms after an error was shown: one is
\* pending whenever the class is present, and it does nothing when it is not
ErrorTimeout ==
    /\ inputError
    /\ Commit([St EXCEPT !.inputError = FALSE], "errorTimeout")

\* the oldest pending tier-advance callback runs
AdvanceTimeout ==
    /\ timeouts # <<>>
    /\ LET nextLevel == Head(timeouts)
           s == [St EXCEPT !.timeouts = Tail(@),
                           !.defaultLevelName = nextLevel,
                           !.defaultLevelSeconds = lvls[nextLevel]]
           u == [UpdateUIForLevel(s, nextLevel, s.defaultLevelSeconds, TRUE)
                   EXCEPT !.levelSelect = nextLevel,
                          !.finishMessage = <<>>,
                          !.isFirstWord = TRUE]
       IN  \E rnd \in RandomIndexes(u.currentWords) :
              Commit(GenerateNextWord(u, rnd), "advance")

(***************************************************************************)
(* Specification                                                           *)
(***************************************************************************)
\* the page before any script has run (index.html): no target word, an empty
\* input, a score of 0, the start button, the level select on the first level
InitialPage ==
    [ theWord |-> <<>>,
      inputValue |-> <<>>,
      timeLeft |-> 0,
      scoreGot |-> 0,
      scoreTotal |-> 0,
      finishMessage |-> <<>>,
      startButton |-> TRUE,
      levelSelect |-> levelProgression[1],
      inputError |-> FALSE ]

\* the module-level variables as declared, on the initial page
Declared(stored) ==
    [ defaultLevelName |-> "Easy",
      defaultLevelSeconds |-> lvls["Easy"],
      currentWords |-> <<>>,
      currentTimer |-> Null,
      isFirstWord |-> TRUE,
      theWord |-> InitialPage.theWord,
      inputValue |-> InitialPage.inputValue,
      timeLeft |-> InitialPage.timeLeft,
      scoreGot |-> InitialPage.scoreGot,
      scoreTotal |-> InitialPage.scoreTotal,
      finishMessage |-> InitialPage.finishMessage,
      startButton |-> InitialPage.startButton,
      levelSelect |-> InitialPage.levelSelect,
      intervals |-> {},
      nextTimerId |-> 1,
      timeouts |-> <<>>,
      storage |-> stored,
      inputError |-> InitialPage.inputError,
      picked |-> <<>>,
      answered |-> <<>>,
      thrown |-> FALSE ]

\* initializeGame: updateUIForLevel(defaultLevelName, defaultLevelSeconds)
InitializeGame(stored) ==
    LET s == Declared(stored) IN
    UpdateUIForLevel(s, s.defaultLevelName, s.defaultLevelSeconds, FALSE)

\* the state once main.js has run; the score history of earlier sessions is
\* absent or malformed
Init ==
    \E stored \in {NoItem, Malformed} :
       LET s == InitializeGame(stored) IN
       /\ defaultLevelName = s.defaultLevelName
       /\ defaultLevelSeconds = s.defaultLevelSeconds
       /\ currentWords = s.currentWords
       /\ currentTimer = s.currentTimer
       /\ isFirstWord = s.isFirstWord
       /\ theWord = s.theWord
       /\ inputValue = s.inputValue
       /\ timeLeft = s.timeLeft
       /\ scoreGot = s.scoreGot
       /\ scoreTotal = s.scoreTotal
       /\ finishMessage = s.finishMessage
       /\ startButton = s.startButton
       /\ levelSelect = s.levelSelect
       /\ intervals = s.intervals
       /\ nextTimerId = s.nextTimerId
       /\ timeouts = s.timeouts
       /\ storage = s.storage
       /\ inputError = s.inputError
       /\ picked = s.picked
       /\ answered = s.answered
       /\ resolvedBy = {}
       /\ levelChanges = 0

Next ==
    \/ \E level \in Levels : HandleLevelChange(level)
    \/ HandleStartGame
    \/ \E key \in Keys : TypeKey(key)
    \/ Backspace
    \/ HandleEnterKey
    \/ \E handle \in intervals : TimerTick(handle)
    \/ AdvanceTimeout
    \/ ErrorTimeout

Spec == Init /\ [][Next]_vars

\* the browser runs every callback that is due: a live interval keeps
\* ticking and a pending tier-advance callback fires after its delay
FairSpec ==
    /\ Spec
    /\ WF_vars(\E handle \in intervals : TimerTick(handle))
    /\ WF_vars(AdvanceTimeout)

(***************************************************************************)
(* Steps, by the event that takes them                                     *)
(***************************************************************************)
TypeStep == (\E key \in Keys : TypeKey(key)) \/ Backspace
EnterStep == HandleEnterKey
TickStep == \E handle \in intervals : TimerTick(handle)
AdvanceStep == AdvanceTimeout
LevelChangeStep == \E level \in Levels : HandleLevelChange(level)

\* the step selects a word (generateNextWord has run: it starts a timer)
Selected == nextTimerId' # nextTimerId

\* the input equals the target, case-insensitively
Matches == ToLowerCase(theWord) = ToLowerCase(inputValue)

\* the entries of the persisted score history
Entries == GetScoreHistory(storage)

\* the tier after `level` in the progression, "" after the last
NextTier(level) ==
    IF IndexOf(levelProgression, level) + 2 \in DOMAIN levelProgression
    THEN levelProgression[IndexOf(levelProgression, level) + 2]
    ELSE ""

LastTier == levelProgression[Len(levelProgression)]

Range(seq) == {seq[i] : i \in DOMAIN seq}

(***************************************************************************)
(* Claims                                                                  *)
(***************************************************************************)

\* C1: in every reachable state at most one countdown interval is live.
C1_AtMostOneTimerLive == Cardinality(intervals) <= 1

\* Won: the pool of the last tier is exhausted and the completion message shown
Won ==
    /\ defaultLevelName = LastTier
    /\ currentWords = <<>>
    /\ \E i \in DOMAIN finishMessage : finishMessage[i].text = "All Levels Completed"

\* C2: once the pool of the last tier is exhausted and the completion message
\* is shown (Won), no keystroke, Enter press or timer tick changes the score,
\* the tier, the pool, the score history or the end messages, or starts a timer.
C2_WonIsTerminal ==
    [][(Won /\ (TypeStep \/ EnterStep \/ TickStep)) =>
          /\ UNCHANGED <<scoreGot, defaultLevelName, currentWords, storage, finishMessage>>
          /\ intervals' \subseteq intervals]_vars

EasyWords == Len(WordList("Easy"))

EasyWin == [score |-> EasyWords, total |-> EasyWords, level |-> "Easy", status |-> "win"]

\* every Easy word has been selected and answered correctly, in a game without
\* manual level change, and Normal has not begun
EasyAllCorrect ==
    /\ levelChanges = 0
    /\ defaultLevelName = "Easy"
    /\ storage.kind # "malformed"
    /\ Len(picked) = EasyWords
    /\ answered = picked

\* C3: a game started on Easy in which every Easy word is answered correctly
\* has appended, at the exhaustion of the pool, exactly the entry {score: all,
\* total: all, Easy, win}; until Normal begins no other entry is appended, and
\* Normal begins with the total of both lists.
C3_OneEasyEntryThenNormal ==
    [][EasyAllCorrect =>
          /\ Entries = <<EasyWin>>
          /\ levelChanges' = levelChanges =>
                /\ storage' = storage
                /\ \/ defaultLevelName' = "Easy"
                   \/ /\ defaultLevelName' = "Normal"
                      /\ scoreTotal' = EasyWords + Len(WordList("Normal"))]_vars

\* C4: every round resolution (correct submission or timeout) clears the input
\* and the target word; the target is set again only by selecting the next word.
C4_ResolutionClearsTarget ==
    [][((EnterStep /\ Matches) \/ (TickStep /\ timeLeft = 1)) =>
          /\ inputValue' = <<>>
          /\ (Selected \/ theWord' = <<>>)]_vars

\* C5: every tier-advance callback moves the tier from t to exactly next(t).
C5_AdvanceToStrictlyNextTier ==
    [][AdvanceStep => defaultLevelName' = NextTier(defaultLevelName)]_vars

\* C6: no word round is resolved both by a correct submission and by a timeout.
C6_NotResolvedBySubmitAndTimeout == ~({"enterCorrect", "timeout"} \subseteq resolvedBy)

NoDuplicates(seq) == \A i, j \in DOMAIN seq : seq[i] = seq[j] => i = j

\* C7: since the last refill of the pool no word was selected twice, every
\* selected word was taken from the pool, and each selection took exactly one
\* word out of it.
C7_SelectionWithoutReplacement ==
    /\ NoDuplicates(picked)
    /\ Range(picked) \cap Range(currentWords) = {}
    /\ Range(picked) \cup Range(currentWords) = Range(WordList(defaultLevelName))
    /\ Len(picked) + Len(currentWords) = Len(WordList(defaultLevelName))

\* C8: the first word selected after a tier is entered starts at budget + 3,
\* every later word of the tier at exactly the budget.
C8_BonusExactlyOncePerTier ==
    [][Selected =>
          timeLeft' = defaultLevelSeconds' + (IF Len(picked') = 1 THEN BonusSeconds ELSE 0)]_vars

\* C9: a reset with keepScore = false (manual level change) sets the total to
\* the size of the tier's list; a reset with keepScore = true (tier advance)
\* adds that size to the prior total; in both the pool becomes the full list
\* (from which the advance at once takes the first word of the tier).
C9_ResetTotals ==
    [][/\ LevelChangeStep =>
             /\ scoreTotal' = Len(WordList(defaultLevelName'))
             /\ currentWords' = WordList(defaultLevelName')
       /\ AdvanceStep =>
             /\ scoreTotal' = scoreTotal + Len(WordList(defaultLevelName'))
             /\ Len(currentWords') = Len(WordList(defaultLevelName')) - 1
             /\ Range(currentWords') \cup {theWord'} = Range(WordList(defaultLevelName'))]_vars

\* a manual level change and, after it, a tier advance have both reset the pool
C9_Witness ==
    /\ levelChanges = 1
    /\ defaultLevelName = "Hard"
    /\ Len(picked) = 1
    /\ scoreTotal = Len(WordList("Normal")) + Len(WordList("Hard"))

\* the exhaustion of the pool has reached endGame: a callback is scheduled or
\* an end message shown, unless saving the score threw
HandedToProgression ==
    \/ timeouts' # timeouts
    \/ finishMessage' # finishMessage
    \/ storage.kind = "malformed"

\* C10: a tick that brings the countdown to zero resolves the round: the score
\* grows by one exactly if the input matches the target, the input is cleared,
\* the timer that fired is no longer live, and the next word is selected or,
\* on an empty pool, the exhaustion is handed to level progression.
C10_TimeoutResolvesRound ==
    [][\A handle \in intervals :
          (timeLeft = 1 /\ TimerTick(handle)) =>
              /\ scoreGot' = scoreGot + (IF Matches THEN 1 ELSE 0)
              /\ inputValue' = <<>>
              /\ handle \notin intervals'
              /\ IF currentWords # <<>> THEN Selected ELSE HandedToProgression]_vars

\* everything the program holds except the error class of the input
ProgramButError ==
    <<defaultLevelName, defaultLevelSeconds, currentWords, currentTimer, isFirstWord,
      theWord, inputValue, timeLeft, scoreGot, scoreTotal, finishMessage, startButton,
      levelSelect, intervals, nextTimerId, timeouts, storage>>

\* C11: an Enter press with a non-empty input that does not equal the target
\* leaves the round pending: score, total, pool, target, input, live timer and
\* remaining time (and everything else) are unchanged; only the error feedback
\* is shown.
C11_WrongEnterLeavesRoundPending ==
    [][(inputValue # <<>> /\ ~Matches /\ EnterStep) =>
          /\ UNCHANGED ProgramButError
          /\ inputError']_vars

\* a round is pending with a non-empty input that is not the target, its
\* timer live, and the error feedback is shown
C11_Witness ==
    /\ inputError
    /\ inputValue # <<>>
    /\ ~Matches
    /\ theWord \in Range(WordList(defaultLevelName))
    /\ intervals = {currentTimer}

\* C12: an Enter press with an empty input is a no-op in every state, also
\* before the game is started: score, pool, target and timers are unchanged and
\* no word round is started.
C12_EmptyEnterIsNoop ==
    [][(inputValue = <<>> /\ EnterStep) =>
          UNCHANGED <<scoreGot, currentWords, theWord, currentTimer, intervals,
                      timeLeft, nextTimerId>>]_vars

\* C13: from a state in which the countdown is about to reach zero with a
\* non-empty input that does not match, the timeout and an Enter press change
\* score, pool and target in the same way.
C13_TimeoutSameAsWrongEnter ==
    (timeLeft = 1 /\ intervals # {} /\ inputValue # <<>> /\ ~Matches) =>
        \A rnd \in RandomIndexes(currentWords) :
           LET byTimeout == IntervalCallback(St, rnd)
               byEnter == EnterKey(St, rnd)
           IN  /\ byTimeout.scoreGot = byEnter.scoreGot
               /\ byTimeout.currentWords = byEnter.currentWords
               /\ byTimeout.theWord = byEnter.theWord

\* C13, amended: a timeout with non-matching input resolves the round as a
\* wrong answer: the score is unchanged and a word of the pool becomes the
\* target and leaves the pool (on an empty pool, pool and target stay as they
\* are); an Enter press with a wrong non-empty input does not resolve the
\* round: score, pool and target are unchanged.
C13_TimeoutResolvesWrongEnterDoesNot ==
    [][/\ (timeLeft = 1 /\ ~Matches /\ TickStep) =>
             /\ scoreGot' = scoreGot
             /\ IF currentWords # <<>>
                THEN \E i \in DOMAIN currentWords :
                        /\ theWord' = currentWords[i]
                        /\ currentWords' = Splice(currentWords, i - 1)
                ELSE UNCHANGED <<currentWords, theWord>>
       /\ (inputValue # <<>> /\ ~Matches /\ EnterStep) =>
             UNCHANGED <<scoreGot, currentWords, theWord>>]_vars

\* the first word of the game was resolved without a point, which only a
\* timeout does, and the second word is the target
C13_Witness ==
    /\ ~startButton
    /\ levelChanges = 0
    /\ Len(picked) = 2
    /\ answered = <<>>
    /\ scoreGot = 0
    /\ theWord = picked[2]
    /\ intervals = {currentTimer}

\* C14: after a keystroke has been handled the input is empty or a
\* case-insensitive prefix of the target; a keystroke that makes it a
\* non-prefix is rejected by discarding the character typed last.
C14_InputIsPrefixAfterKeystroke ==
    [][TypeStep =>
          \/ inputValue' = <<>>
          \/ StartsWith(ToLowerCase(theWord'), ToLowerCase(inputValue'))]_vars

\* C15: whatever the stored score history is (absent or malformed), the
\* resolution that completes a tier appends the Score Entry and the tier
\* transition, or the end of the game, completes.
C15_TierCompletesWithCorruptHistory ==
    [][(currentWords = <<>> /\ ((Matches /\ EnterStep) \/ (timeLeft = 1 /\ TickStep))) =>
          /\ Len(GetScoreHistory(storage')) = Len(Entries) + 1
          /\ IF defaultLevelName = LastTier
             THEN Len(finishMessage') = Len(finishMessage) + 1
             ELSE Len(timeouts') = Len(timeouts) + 1]_vars

\* C16: no sequence of events produces a loss: no Score Entry with outcome
\* loss is in the history and no 'Game Over' message is shown; wrong answers
\* and timeouts leave only wins behind.
C16_NoLoss ==
    /\ \A i \in DOMAIN Entries : Entries[i].status = "win"
    /\ \A i \in DOMAIN finishMessage : finishMessage[i].text # "Game Over"

\* a tier was completed with at least one word not answered correctly, and
\* its entry is a win
C16_Witness ==
    /\ Entries # <<>>
    /\ Entries[1].score < Entries[1].total
    /\ Entries[1].status = "win"
    /\ finishMessage # <<>>

\* C17: the correct count is at most the total word count, and every point
\* was given for a selected word, at most one per selected word.
C17_ScoreAtMostTotal ==
    /\ scoreGot <= scoreTotal
    /\ NoDuplicates(answered)
    /\ Range(answered) \subseteq Range(picked)

\* C19: no word is selected from an empty pool, so that the target, once
\* there is one, is a word of the current tier's list and never undefined.
C19_NoSelectionOnEmptyPool ==
    /\ Undefined \notin Range(picked)
    /\ theWord # Undefined
    /\ theWord # <<>> => theWord \in Range(WordList(defaultLevelName))

\* C20: the displayed remaining time is never negative.
C20_TimeLeftNeverNegative == timeLeft >= 0

\* the behaviour has reached a bound of the model, beyond which it is not
\* followed
AtBound ==
    \/ scoreGot = MaxScore
    \/ nextTimerId = MaxRounds + 1
    \/ timeLeft = 0 - MaxNegative

\* C18: once the game has been started, if callbacks that are due are run and
\* the level is never changed by hand, the game eventually reaches the
\* all-levels-completed state, whatever the player types.
C18_EventuallyWon ==
    ~startButton ~> (Won \/ levelChanges > 0 \/ AtBound)

====
